---- MODULE Spec2Model ----
(***************************************************************************)
(* Model of main.py of the AI learning scheduler backend: the duration     *)
(* parser (parse_duration_to_days), the granularity selector               *)
(* (get_schedule_granularity), the part of create_streaming_prompt that    *)
(* chains them, and the generator stream_json_objects that reassembles the *)
(* upstream fragments into newline-terminated records.                     *)
(*                                                                         *)
(* Python strings are sequences of one-character strings, so that          *)
(* splitting, stripping, lower-casing and matching are computed and not    *)
(* assumed.                                                                *)
(***************************************************************************)
EXTENDS Integers, Sequences, FiniteSets, TLC

\* ------------------------------------------------------------------ bounds
\* Longest upstream text of one request (Spec).
MaxTextLen == 5
\* Longest upstream text when two requests are run side by side (SpecPair).
MaxPairLen == 3
\* Most fragments the upstream delivers to one request.
MaxChunks == 3
\* Largest number typed in a total_duration (SpecPrompt).
MaxNum == 370

\* ------------------------------------------------------------- characters
NL == "\n"
\* The characters the upstream text is drawn from: two letters, a blank and
\* the newline.
Chars == {"a", "b", " ", NL}
\* What str.strip() removes (the ASCII part of it).
PyWhitespace == {" ", "\t", NL, "\r", "\f"}

Texts(n) == UNION {[1..k -> Chars] : k \in 0..n}

Min(S) == CHOOSE x \in S : \A y \in S : x <= y
Max(S) == CHOOSE x \in S : \A y \in S : x >= y

\* s.strip()
Strip(s) ==
  LET keep == {i \in 1..Len(s) : s[i] \notin PyWhitespace}
  IN  IF keep = {} THEN <<>> ELSE SubSeq(s, Min(keep), Max(keep))

\* c in s, for a one-character c
Contains(s, c) == \E i \in 1..Len(s) : s[i] = c

\* A split at the last newline (rsplit) instead of the first.
SplitFirst_AtLast(s) ==
  LET i == Max({j \in 1..Len(s) : s[j] = NL})
  IN  <<SubSeq(s, 1, i - 1), SubSeq(s, i + 1, Len(s))>>

\* s.split('\n', 1) of an s that contains a newline: <<line, rest>>
SplitFirst(s) ==
  LET i == Min({j \in 1..Len(s) : s[j] = NL})
  IN  <<SubSeq(s, 1, i - 1), SubSeq(s, i + 1, Len(s))>>

\* Line 167: the string yielded for an extracted line.
LineRecord(line) == line \o <<NL>>

\* A flush that strips the remainder before yielding it.
FlushRecord_Trimmed(buf) == Strip(buf) \o <<NL>>

\* Line 170: the string yielded for the remainder at the end of the stream.
FlushRecord(buf) == buf \o <<NL>>

\* A payload built by hand, without escaping.
JsonEscape_Raw(s) == s

\* json.dumps of a string's characters: the newline becomes the two
\* characters backslash and n, the other characters of the model stand.
JsonEscape(s) ==
  [i \in 1..Len(s) |-> IF s[i] = NL THEN "\\n" ELSE s[i]]

\* json.dumps({"error": f"An error occurred: {str(e)}"})
ErrorOpen == "{\"error\": \"An error occurred: "
ErrorClose == "\"}"
ErrorPayload(e) == <<ErrorOpen>> \o JsonEscape(e) \o <<ErrorClose>>

\* Line 175: the string yielded by the except block.
ErrorRecord(e) == ErrorPayload(e) \o <<NL>>

\* str(e) of the exceptions the upstream raises.
Messages == {<<"a">>, <<"a", NL, "b">>}

\* -------------------------------------------------------- duration parser
DigitChars == <<"0", "1", "2", "3", "4", "5", "6", "7", "8", "9">>
LowerChars == <<"a", "b", "c", "d", "e", "f", "g", "h", "i", "j", "k", "l", "m", "n", "o", "p", "q", "r", "s", "t", "u", "v", "w", "x", "y", "z">>
UpperChars == <<"A", "B", "C", "D", "E", "F", "G", "H", "I", "J", "K", "L", "M", "N", "O", "P", "Q", "R", "S", "T", "U", "V", "W", "X", "Y", "Z">>

Range(f) == {f[i] : i \in DOMAIN f}

\* The regex classes \d, \s and \w, on the characters of the model.
IsDigit(c) == c \in Range(DigitChars)
IsSpace(c) == c \in PyWhitespace
IsWordChar(c) ==
  c \in Range(DigitChars) \cup Range(LowerChars) \cup Range(UpperChars) \cup {"_"}

\* s.lower()
LowerChar(c) ==
  IF c \in Range(UpperChars)
    THEN LowerChars[CHOOSE i \in 1..26 : UpperChars[i] = c]
    ELSE c

Lower(s) == [i \in 1..Len(s) |-> LowerChar(s[i])]

\* int() of a run of decimal digits
DigitVal(c) == (CHOOSE i \in 1..10 : DigitChars[i] = c) - 1

RECURSIVE DigitsValue(_)
DigitsValue(ds) ==
  IF ds = <<>> THEN 0
  ELSE 10 * DigitsValue(SubSeq(ds, 1, Len(ds) - 1)) + DigitVal(ds[Len(ds)])

\* re.match(r"(\d+)\s*(\w+)", s): the ways to cut a prefix of s into i >= 1
\* digits, j >= 0 whitespace characters and k >= 1 word characters. The three
\* quantifiers are greedy, so the engine's match is the cut with the largest
\* i, then the largest j, then the largest k.
DigitRuns(s) == {i \in 1..Len(s) : \A x \in 1..i : IsDigit(s[x])}

SpaceRuns(s, from) ==
  {j \in 0..(Len(s) - from) : \A x \in (from + 1)..(from + j) : IsSpace(s[x])}

WordRuns(s, from) ==
  {k \in 1..(Len(s) - from) : \A x \in (from + 1)..(from + k) : IsWordChar(s[x])}

MatchCuts(s) ==
  UNION {UNION {{<<i, j, k>> : k \in WordRuns(s, i + j)} : j \in SpaceRuns(s, i)}
           : i \in DigitRuns(s)}

Before(c, d) ==
  \/ c[1] > d[1]
  \/ c[1] = d[1] /\ c[2] > d[2]
  \/ c[1] = d[1] /\ c[2] = d[2] /\ c[3] >= d[3]

\* The match object: whether there is one, group(1) and group(2).
ReMatch(s) ==
  LET cuts == MatchCuts(s)
  IN  IF cuts = {}
        THEN [matched |-> FALSE, num |-> <<>>, unit |-> <<>>]
        ELSE LET c == CHOOSE c \in cuts : \A d \in cuts : Before(c, d)
             IN  [matched |-> TRUE,
                  num |-> SubSeq(s, 1, c[1]),
                  unit |-> SubSeq(s, c[1] + c[2] + 1, c[1] + c[2] + c[3])]

\* int(s) of a string: whitespace around it, an optional sign, then digits
\* with single underscores between them; ok is FALSE for a ValueError.
PyInt(s) ==
  LET t == Strip(s)
      signed == t # <<>> /\ t[1] \in {"+", "-"}
      body == IF signed THEN SubSeq(t, 2, Len(t)) ELSE t
      wellFormed ==
        /\ body # <<>>
        /\ \A i \in 1..Len(body) : IsDigit(body[i]) \/ body[i] = "_"
        /\ IsDigit(body[1]) /\ IsDigit(body[Len(body)])
        /\ \A i \in 1..(Len(body) - 1) : ~(body[i] = "_" /\ body[i + 1] = "_")
      digits == SelectSeq(body, IsDigit)
      value == DigitsValue(digits)
  IN  IF wellFormed
        THEN [ok |-> TRUE, value |-> IF signed /\ t[1] = "-" THEN 0 - value ELSE value]
        ELSE [ok |-> FALSE, value |-> 0]

\* word in unit
In(word, unit) ==
  \E i \in 0..(Len(unit) - Len(word)) :
    SubSeq(unit, i + 1, i + Len(word)) = word

\* Lines 69-78: the unit decides the factor, tried in this order.
ScaleByUnit_WeekFirst(num, unit) ==
  IF In(<<"w", "e", "e", "k">>, unit) THEN num * 7
  ELSE IF In(<<"d", "a", "y">>, unit) THEN num
  ELSE IF In(<<"m", "o", "n", "t", "h">>, unit) THEN num * 30
  ELSE IF In(<<"y", "e", "a", "r">>, unit) THEN num * 365
  ELSE num

ScaleByUnit(num, unit) ==
  IF In(<<"d", "a", "y">>, unit) THEN num
  ELSE IF In(<<"w", "e", "e", "k">>, unit) THEN num * 7
  ELSE IF In(<<"m", "o", "n", "t", "h">>, unit) THEN num * 30
  ELSE IF In(<<"y", "e", "a", "r">>, unit) THEN num * 365
  ELSE num

\* Lines 55-78.
parse_duration_to_days(duration_str) ==
  LET s == Strip(Lower(duration_str))
      match == ReMatch(s)
  IN  IF ~match.matched
        THEN IF PyInt(s).ok THEN PyInt(s).value ELSE 30
        ELSE ScaleByUnit(DigitsValue(match.num), match.unit)

\* ---------------------------------------------------- granularity selector
\* Lines 88-108: the branch taken.
GranularityBranch_ClosedBelow(total_days) ==
  IF total_days >= 365 THEN "monthly"
  ELSE IF 180 <= total_days /\ total_days < 365 THEN "10-day"
  ELSE IF 60 <= total_days /\ total_days < 180 THEN "5-day"
  ELSE IF 30 <= total_days /\ total_days < 60 THEN "2-day"
  ELSE "daily"

GranularityBranch(total_days) ==
  IF total_days > 365 THEN "monthly"
  ELSE IF 180 < total_days /\ total_days <= 365 THEN "10-day"
  ELSE IF 60 < total_days /\ total_days <= 180 THEN "5-day"
  ELSE IF 30 < total_days /\ total_days <= 60 THEN "2-day"
  ELSE "daily"

\* Lines 89-111: period_instruction, json_day_field, json_example per branch.
GranularityOf(branch) ==
  CASE branch = "monthly" ->
         <<"Your schedule should be monthly (e.g., 'Month 1', 'Month 2').",
           "\"day\": \"<string>\"", "\"day\": \"Month 1\"">>
    [] branch = "10-day" ->
         <<"Your schedule should be in 10-day blocks (e.g., '1-10', '11-20').",
           "\"day\": \"<string>\"", "\"day\": \"1-10\"">>
    [] branch = "5-day" ->
         <<"Your schedule should be in 5-day blocks (e.g., '1-5', '6-10').",
           "\"day\": \"<string>\"", "\"day\": \"1-5\"">>
    [] branch = "2-day" ->
         <<"Your schedule should be in 2-day blocks (e.g., '1-2', '3-4').",
           "\"day\": \"<string>\"", "\"day\": \"1-2\"">>
    [] branch = "daily" ->
         <<"Your schedule should be daily (Day 1, Day 2...).",
           "\"day\": <integer>", "\"day\": 1">>

\* Lines 80-113.
get_schedule_granularity(total_days) == GranularityOf(GranularityBranch(total_days))

\* ------------------------------------------------- the requests of SpecPrompt
\* str(n) of a natural number
RECURSIVE Decimal(_)
Decimal(n) ==
  IF n < 10 THEN <<DigitChars[n + 1]>>
  ELSE Decimal(n \div 10) \o <<DigitChars[(n % 10) + 1]>>

\* The unit words typed after the number; the empty one is no unit.
UnitWords == {
  <<>>,
  <<"d", "a", "y">>,
  <<"d", "a", "y", "s">>,
  <<"D", "a", "y", "s">>,
  <<"w", "e", "e", "k">>,
  <<"w", "e", "e", "k", "s">>,
  <<"W", "E", "E", "K", "S">>,
  <<"m", "o", "n", "t", "h">>,
  <<"m", "o", "n", "t", "h", "s">>,
  <<"y", "e", "a", "r">>,
  <<"y", "e", "a", "r", "s">>,
  <<"h", "o", "u", "r", "s">>,
  <<"w", "e", "e", "k", "l", "y">>,
  <<"w", "e", "e", "k", "d", "a", "y", "s">>,
  <<"y", "e", "a", "r", "l", "y">>,
  <<"f", "o", "r", "t", "n", "i", "g", "h", "t", "s">>}

\* What is typed before the number: nothing, a blank, a sign.
Leads == {<<>>, <<" ">>, <<"-">>}

\* How a total_duration is typed: lead, the number n (-1: none), sep, the unit
\* word, trail.
Typings ==
  [lead : Leads, n : -1..MaxNum, sep : {<<>>, <<" ">>}, unit : UnitWords,
   trail : {<<>>, <<" ">>}]

Typed(t) ==
  t.lead \o (IF t.n >= 0 THEN Decimal(t.n) ELSE <<>>) \o t.sep \o t.unit \o t.trail

\* ------------------------------------------------------------------ state
Runs == {1, 2}

VARIABLES
  text,     \* the whole text the upstream would deliver to the requests
  pos,      \* pos[r]: how much of text request r has appended to its buffer
  nchunks,  \* nchunks[r]: fragments request r has taken from the upstream
  calls,    \* calls[r]: generate_content calls made for request r
  buffer,   \* buffer[r]: the local variable buffer
  out,      \* out[r]: the strings the generator has yielded, in order
  pc,       \* pc[r]: where the generator of request r stands
  typing,          \* how the request's total_duration was typed
  total_duration,  \* request.total_duration
  total_days,      \* create_streaming_prompt's total_days
  granularity,     \* its (period_instruction, json_day_field, json_example)
  ppc              \* where create_streaming_prompt stands

streamVars == <<text, pos, nchunks, calls, buffer, out, pc>>
promptVars == <<typing, total_duration, total_days, granularity, ppc>>
vars == <<streamVars, promptVars>>

received(r) == SubSeq(text, 1, pos[r])

InitRuns ==
  /\ pos = [r \in Runs |-> 0]
  /\ nchunks = [r \in Runs |-> 0]
  /\ calls = [r \in Runs |-> 0]
  /\ buffer = [r \in Runs |-> <<>>]
  /\ out = [r \in Runs |-> <<>>]
  /\ pc = [r \in Runs |-> "start"]

\* The request of the stream specifications: "30 days", its prompt built.
InitPrompt ==
  /\ typing = [lead |-> <<>>, n |-> 30, sep |-> <<" ">>,
               unit |-> <<"d", "a", "y", "s">>, trail |-> <<>>]
  /\ total_duration = Typed(typing)
  /\ total_days = parse_duration_to_days(total_duration)
  /\ granularity = get_schedule_granularity(total_days)
  /\ ppc = "built"

Init == text \in Texts(MaxTextLen) /\ InitRuns /\ InitPrompt

InitPair == text \in Texts(MaxPairLen) /\ InitRuns /\ InitPrompt

\* A request as it arrives: any typing of total_duration, nothing computed.
InitRequest ==
  /\ typing \in Typings
  /\ total_duration = Typed(typing)
  /\ total_days = 0
  /\ granularity = <<"", "", "">>
  /\ ppc = "request"
  /\ text = <<>>
  /\ InitRuns

\* Line 120: total_days = parse_duration_to_days(request.total_duration)
ParseDuration ==
  /\ ppc = "request"
  /\ total_days' = parse_duration_to_days(total_duration)
  /\ ppc' = "parsed"
  /\ UNCHANGED <<typing, total_duration, granularity, streamVars>>

\* Lines 122-124: the granularity triple of total_days.
SelectGranularity ==
  /\ ppc = "parsed"
  /\ granularity' = get_schedule_granularity(total_days)
  /\ ppc' = "built"
  /\ UNCHANGED <<typing, total_duration, total_days, streamVars>>

NextPrompt == ParseDuration \/ SelectGranularity

SpecPrompt == InitRequest /\ [][NextPrompt]_vars

\* Lines 153-159: the model object, the prompt, the streaming call, buffer = "".
Start(r) ==
  /\ pc[r] = "start"
  /\ calls' = [calls EXCEPT ![r] = @ + 1]
  /\ buffer' = [buffer EXCEPT ![r] = <<>>]
  /\ pc' = [pc EXCEPT ![r] = "iter"]
  /\ UNCHANGED <<text, pos, nchunks, out, promptVars>>

\* buffer = chunk.text instead of buffer += chunk.text.
NextChunk_Overwrite(r) ==
  /\ pc[r] = "iter"
  /\ nchunks[r] < MaxChunks
  /\ \E k \in 0..(Len(text) - pos[r]) :
       LET chunk == SubSeq(text, pos[r] + 1, pos[r] + k)
       IN  /\ nchunks' = [nchunks EXCEPT ![r] = @ + 1]
           /\ pos' = [pos EXCEPT ![r] = @ + k]
           /\ IF chunk # <<>>
                THEN /\ buffer' = [buffer EXCEPT ![r] = chunk]
                     /\ pc' = [pc EXCEPT ![r] = "drain"]
                ELSE UNCHANGED <<buffer, pc>>
  /\ UNCHANGED <<text, calls, out, promptVars>>

\* Lines 160-162: the next fragment; an empty chunk.text is skipped.
NextChunk(r) ==
  /\ pc[r] = "iter"
  /\ nchunks[r] < MaxChunks
  /\ \E k \in 0..(Len(text) - pos[r]) :
       LET chunk == SubSeq(text, pos[r] + 1, pos[r] + k)
       IN  /\ nchunks' = [nchunks EXCEPT ![r] = @ + 1]
           /\ pos' = [pos EXCEPT ![r] = @ + k]
           /\ IF chunk # <<>>
                THEN /\ buffer' = [buffer EXCEPT ![r] = @ \o chunk]
                     /\ pc' = [pc EXCEPT ![r] = "drain"]
                ELSE UNCHANGED <<buffer, pc>>
  /\ UNCHANGED <<text, calls, out, promptVars>>

\* Lines 164-167: one turn of the while loop.
DrainLine(r) ==
  /\ pc[r] = "drain"
  /\ Contains(buffer[r], NL)
  /\ LET parts == SplitFirst(buffer[r])
         line == parts[1]
     IN  /\ buffer' = [buffer EXCEPT ![r] = parts[2]]
         /\ IF Strip(line) # <<>>
              THEN out' = [out EXCEPT ![r] = Append(@, LineRecord(line))]
              ELSE UNCHANGED out
  /\ UNCHANGED <<text, pos, nchunks, calls, pc, promptVars>>

\* An if in place of the while: the loop is left with newlines in the buffer.
DrainDone_Early(r) ==
  /\ pc[r] = "drain"
  /\ pc' = [pc EXCEPT ![r] = "iter"]
  /\ UNCHANGED <<text, pos, nchunks, calls, buffer, out, promptVars>>

\* Line 164: the while condition is false, back to the for loop.
DrainDone(r) ==
  /\ pc[r] = "drain"
  /\ ~Contains(buffer[r], NL)
  /\ pc' = [pc EXCEPT ![r] = "iter"]
  /\ UNCHANGED <<text, pos, nchunks, calls, buffer, out, promptVars>>

\* Lines 160, 169-170: the upstream is exhausted; the remainder is flushed.
EndOfStream(r) ==
  /\ pc[r] = "iter"
  /\ pos[r] = Len(text)
  /\ IF Strip(buffer[r]) # <<>>
       THEN out' = [out EXCEPT ![r] = Append(@, FlushRecord(buffer[r]))]
       ELSE UNCHANGED out
  /\ pc' = [pc EXCEPT ![r] = "done"]
  /\ UNCHANGED <<text, pos, nchunks, calls, buffer, promptVars>>

\* An except block that yields the error record and starts over.
Fail_Retry(r) ==
  /\ pc[r] \in {"start", "iter"}
  /\ \E e \in Messages :
       out' = [out EXCEPT ![r] = Append(@, ErrorRecord(e))]
  /\ calls' = calls
  /\ pc' = [pc EXCEPT ![r] = "start"]
  /\ UNCHANGED <<text, pos, nchunks, buffer, promptVars>>

\* An except block that flushes the buffer before the error record.
Fail_Flush(r) ==
  /\ pc[r] \in {"start", "iter"}
  /\ \E e \in Messages :
       out' = [out EXCEPT ![r] =
                 (IF Strip(buffer[r]) # <<>> THEN Append(@, FlushRecord(buffer[r])) ELSE @)
                   \o <<ErrorRecord(e)>>]
  /\ calls' = calls
  /\ pc' = [pc EXCEPT ![r] = "errored"]
  /\ UNCHANGED <<text, pos, nchunks, buffer, promptVars>>

\* Lines 172-175: an exception of lines 153-157 (before or in the call) or of
\* the for loop (the iterator, or chunk.text) is caught; one record is yielded.
Fail(r) ==
  /\ pc[r] \in {"start", "iter"}
  /\ \E e \in Messages :
       out' = [out EXCEPT ![r] = Append(@, ErrorRecord(e))]
  /\ \E made \in {0, 1} :
       calls' = [calls EXCEPT ![r] = IF pc[r] = "start" THEN @ + made ELSE @]
  /\ pc' = [pc EXCEPT ![r] = "errored"]
  /\ UNCHANGED <<text, pos, nchunks, buffer, promptVars>>

Step(r) ==
  \/ Start(r)
  \/ NextChunk(r)
  \/ DrainLine(r)
  \/ DrainDone(r)
  \/ EndOfStream(r)
  \/ Fail(r)

Next == Step(1)

NextPair == \E r \in Runs : Step(r)

Spec == Init /\ [][Next]_vars

SpecPair == InitPair /\ [][NextPair]_vars

\* ------------------------------------------------- the stream reassembler
\* The text between the newlines of s, in order: one more segment than s has
\* newlines, the last one being what follows the last newline.
NewlineAt(s) == {i \in 1..Len(s) : s[i] = NL}

Segments(s) ==
  LET at == NewlineAt(s)
      n == Cardinality(at)
      cut(j) == IF j = 0 THEN 0
                ELSE IF j = n + 1 THEN Len(s) + 1
                ELSE CHOOSE p \in at : Cardinality({q \in at : q <= p}) = j
  IN  [j \in 1..(n + 1) |-> SubSeq(s, cut(j - 1) + 1, cut(j) - 1)]

\* The segments of s that a newline terminates.
Terminated(s) == SubSeq(Segments(s), 1, Len(Segments(s)) - 1)

IsBlank(s) == \A i \in 1..Len(s) : s[i] \in PyWhitespace

NotBlank(s) == ~IsBlank(s)

NonBlank(segs) == SelectSeq(segs, NotBlank)

\* A segment as a record of the output stream: the segment and its newline.
Framed(segs) == [i \in 1..Len(segs) |-> segs[i] \o <<NL>>]

IsPrefix(s, t) == Len(s) <= Len(t) /\ SubSeq(t, 1, Len(s)) = s

IsErrorRecord(rec) == Len(rec) >= 1 /\ rec[1] = ErrorOpen

\* What request r has yielded from lines and from the flush.
lines(r) ==
  IF pc[r] = "errored" THEN SubSeq(out[r], 1, Len(out[r]) - 1) ELSE out[r]

\* C1: after a normal end of the stream the records are, in order, the
\* non-blank segments of the whole upstream text split at the newlines, each
\* followed by its newline; blank segments are absent and the segment after
\* the last newline is there once.
C1_EndToEnd ==
  \A r \in Runs :
    pc[r] = "done" => out[r] = Framed(NonBlank(Segments(text)))

\* Reached: two or more fragments, a blank segment dropped, an unterminated
\* last segment flushed as the second record.
C1_Witness ==
  /\ pc[1] = "done"
  /\ nchunks[1] >= 2
  /\ Len(out[1]) = 2
  /\ \E j \in 1..Len(Segments(text)) : IsBlank(Segments(text)[j])
  /\ text # <<>> /\ text[Len(text)] # NL

\* C2: nothing received is lost (the records yielded from lines, followed by
\* the non-blank segments still in the buffer, are the non-blank segments of
\* the text received), and until the end of the stream every record is a
\* segment whose newline has been received; only the flush adds the
\* unterminated remainder.
C2_BufferInvariant ==
  \A r \in Runs :
    /\ pc[r] # "done" =>
         /\ lines(r) \o Framed(NonBlank(Segments(buffer[r])))
              = Framed(NonBlank(Segments(received(r))))
         /\ IsPrefix(lines(r), Framed(NonBlank(Terminated(received(r)))))
    /\ pc[r] = "done" =>
         /\ lines(r) = Framed(NonBlank(Segments(received(r))))
         /\ IsPrefix(Framed(NonBlank(Terminated(received(r)))), lines(r))
         /\ Len(lines(r)) <= Len(NonBlank(Terminated(received(r)))) + 1

\* A line has been yielded, a partial line waits in the buffer across a
\* fragment boundary, and more text is to come.
C2_Witness ==
  /\ pc[1] = "iter"
  /\ nchunks[1] >= 2
  /\ Len(out[1]) >= 1
  /\ NotBlank(buffer[1])
  /\ pos[1] < Len(text)

\* The generator is at a line of its body or has returned, never raised;
\* generate_content was called once at most; after a failure the last record
\* is the one error record of the output, and without a failure there is none.
C3_ErrorState ==
  \A r \in Runs :
    /\ pc[r] \in {"start", "iter", "drain", "done", "errored"}
    /\ calls[r] <= 1
    /\ pc[r] = "errored" =>
         /\ Len(out[r]) >= 1
         /\ IsErrorRecord(out[r][Len(out[r])])
         /\ \A i \in 1..(Len(out[r]) - 1) : ~IsErrorRecord(out[r][i])
    /\ pc[r] # "errored" => \A i \in 1..Len(out[r]) : ~IsErrorRecord(out[r][i])

\* Once the except block has yielded, the request yields nothing more and
\* calls nothing more.
C3_ErrorFinal ==
  \A r \in Runs :
    pc[r] = "errored" =>
      /\ pc'[r] = "errored"
      /\ out'[r] = out[r]
      /\ calls'[r] = calls[r]

\* C3: a failure of the upstream does not escape the generator: it ends in
\* the except block having yielded exactly one error record, which is the
\* last record; nothing follows it and the upstream call is not made again.
C3_UpstreamFailure == [](C3_ErrorState) /\ [][C3_ErrorFinal]_vars

\* A failure between fragments, after a line was yielded.
C3_Witness ==
  /\ pc[1] = "errored"
  /\ nchunks[1] >= 1
  /\ Len(out[1]) >= 2
  /\ calls[1] = 1

\* C9: after a failure the output is the non-blank newline-terminated lines
\* received so far, in order, and then the error record; the remainder in the
\* buffer is not among them.
C9_PartialOutput ==
  \A r \in Runs :
    pc[r] = "errored" =>
      \E e \in Messages :
        out[r] = Framed(NonBlank(Terminated(received(r)))) \o <<ErrorRecord(e)>>

\* A failure with a yielded line and a non-blank remainder left unflushed.
C9_Witness ==
  /\ pc[1] = "errored"
  /\ Len(out[1]) = 2
  /\ NotBlank(buffer[1])

\* C10: every yielded string is non-blank, ends with a newline and has no
\* other newline; outside the drain loop the buffer holds no newline.
C10_Framing ==
  \A r \in Runs :
    /\ \A i \in 1..Len(out[r]) :
         LET rec == out[r][i]
         IN  /\ NotBlank(rec)
             /\ rec[Len(rec)] = NL
             /\ \A j \in 1..(Len(rec) - 1) : rec[j] # NL
    /\ pc[r] \in {"iter", "done", "errored"} => ~Contains(buffer[r], NL)

\* A line record followed by an error record whose message held a newline.
C10_Witness ==
  /\ pc[1] = "errored"
  /\ Len(out[1]) = 2
  /\ Contains(out[1][2], "\\n")

\* C4 as stated: every record is trimmed, and a single fragment without a
\* newline gives one record, the trimmed fragment.
C4_Trimmed ==
  \A r \in Runs :
    /\ \A i \in 1..Len(lines(r)) :
         LET rec == lines(r)[i]
             content == SubSeq(rec, 1, Len(rec) - 1)
         IN  content = Strip(content)
    /\ (pc[r] = "done" /\ nchunks[r] = 1 /\ ~Contains(text, NL) /\ NotBlank(text))
         => lines(r) = <<Strip(text)>>

\* C4 amended: a record is the extracted text as received, whitespace
\* included, and its newline; stripping only decides whether it is blank. A
\* single fragment without a newline gives one record, the fragment and a
\* newline, when it is not blank, and no record when it is.
C4_Untrimmed ==
  \A r \in Runs :
    /\ \A i \in 1..Len(lines(r)) :
         \E j \in 1..Len(Segments(received(r))) :
           lines(r)[i] = Segments(received(r))[j] \o <<NL>>
    /\ (pc[r] = "done" /\ nchunks[r] = 1 /\ ~Contains(text, NL))
         => lines(r) = IF IsBlank(text) THEN <<>> ELSE <<text \o <<NL>>>>

\* One fragment " a " and the end of the stream: the record keeps the blanks.
C4_Witness ==
  /\ pc[1] = "done"
  /\ nchunks[1] = 1
  /\ ~Contains(text, NL)
  /\ Len(text) >= 3 /\ text[1] = " " /\ text[Len(text)] = " "
  /\ out[1] = <<text \o <<NL>>>>

\* C8: two requests whose upstream text is the same end with the same
\* records, however the text was cut into fragments.
C8_ChunkingIndependence ==
  \A r1, r2 \in Runs :
    (pc[r1] = "done" /\ pc[r2] = "done") => out[r1] = out[r2]

\* One request took the text whole, the other in three fragments.
C8_Witness ==
  /\ pc[1] = "done" /\ pc[2] = "done"
  /\ nchunks[1] = 1 /\ nchunks[2] = 3
  /\ Len(out[1]) = 2

\* ------------------------------------------------------- the prompt inputs
IsPadding(s) == \A i \in 1..Len(s) : s[i] \in PyWhitespace

\* total_duration is a number alone, with whitespace around it at most.
BareInteger(t) == t.n >= 0 /\ IsPadding(t.lead) /\ t.unit = <<>>

\* total_duration is a number and a unit word, with whitespace around them
\* and between them at most.
NumberAndUnit(t) == t.n >= 0 /\ IsPadding(t.lead) /\ t.unit # <<>>

Occurs(word, s) ==
  \E i \in 1..Len(s) :
    /\ i + Len(word) - 1 <= Len(s)
    /\ \A x \in 1..Len(word) : s[i + x - 1] = word[x]

\* C5: a total_duration that is a non-negative integer alone, with
\* whitespace around it at most, is parsed to that integer as the day count.
C5_BareInteger ==
  (ppc # "request" /\ BareInteger(typing)) => total_days = typing.n

\* The factor by the unit word's identity: 7, 30 or 365 for week(s), month(s)
\* or year(s), and 1 for day(s) and for every other word.
StatedFactor(unit) ==
  LET u == Lower(unit)
  IN  IF u \in {<<"w", "e", "e", "k">>, <<"w", "e", "e", "k", "s">>} THEN 7
      ELSE IF u \in {<<"m", "o", "n", "t", "h">>, <<"m", "o", "n", "t", "h", "s">>} THEN 30
      ELSE IF u \in {<<"y", "e", "a", "r">>, <<"y", "e", "a", "r", "s">>} THEN 365
      ELSE 1

\* C6 as stated: a number and a unit word give n for day(s), n*7 for week(s),
\* n*30 for month(s), n*365 for year(s) and n for every other unit word.
C6_UnitScalingAsStated ==
  (ppc # "request" /\ NumberAndUnit(typing))
    => total_days = typing.n * StatedFactor(typing.unit)

\* The factor by what the unit word contains, whatever its case: 1 if it
\* contains "day"; else 7 if it contains "week"; else 30 if it contains
\* "month"; else 365 if it contains "year"; else 1.
ContainedFactor(unit) ==
  LET u == Lower(unit)
  IN  IF Occurs(<<"d", "a", "y">>, u) THEN 1
      ELSE IF Occurs(<<"w", "e", "e", "k">>, u) THEN 7
      ELSE IF Occurs(<<"m", "o", "n", "t", "h">>, u) THEN 30
      ELSE IF Occurs(<<"y", "e", "a", "r">>, u) THEN 365
      ELSE 1

\* C6 amended: a number and a unit word give n times the factor of the first
\* of "day", "week", "month", "year" that the unit word contains, and n when
\* it contains none.
C6_UnitScaling ==
  (ppc # "request" /\ NumberAndUnit(typing))
    => total_days = typing.n * ContainedFactor(typing.unit)

\* " 3WEEKS" is 21 days.
C6_Witness ==
  /\ ppc = "parsed"
  /\ typing.lead = <<" ">> /\ typing.n = 3 /\ typing.sep = <<>>
  /\ typing.unit = <<"W", "E", "E", "K", "S">>
  /\ total_days = 21

\* C7: each day count has the bucket of the table, the bounds 30, 60, 180 and
\* 365 belonging to the bucket below them.
C7_Buckets ==
  ppc = "built" =>
    LET d == total_days
        field == granularity[2]
        example == granularity[3]
        bucket == {b \in 1..5 :
                     \/ b = 1 /\ d > 365
                     \/ b = 2 /\ 180 < d /\ d <= 365
                     \/ b = 3 /\ 60 < d /\ d <= 180
                     \/ b = 4 /\ 30 < d /\ d <= 60
                     \/ b = 5 /\ d <= 30}
    IN  /\ Cardinality(bucket) = 1
        /\ 1 \in bucket => field = "\"day\": \"<string>\"" /\ example = "\"day\": \"Month 1\""
        /\ 2 \in bucket => field = "\"day\": \"<string>\"" /\ example = "\"day\": \"1-10\""
        /\ 3 \in bucket => field = "\"day\": \"<string>\"" /\ example = "\"day\": \"1-5\""
        /\ 4 \in bucket => field = "\"day\": \"<string>\"" /\ example = "\"day\": \"1-2\""
        /\ 5 \in bucket => field = "\"day\": <integer>" /\ example = "\"day\": 1"

\* "1 year" is 365 days, still in the 10-day bucket.
C7_Witness ==
  /\ ppc = "built"
  /\ typing.n = 1 /\ typing.unit = <<"y", "e", "a", "r">>
  /\ total_days = 365
  /\ granularity[3] = "\"day\": \"1-10\""

====
